---- MODULE Spec2Model ----
(***************************************************************************)
(* Model of scripts/get-reddit-leads.py: the text cleaner                  *)
(* (clean_html_content), the deindexer (deref), the array-format lead      *)
(* extractor (extract_leads_from_execution) and the orchestrator           *)
(* (get_leads).                                                            *)
(*                                                                         *)
(* Representation.  A Python str is a sequence of characters, each         *)
(* character a one-token TLA+ string ("a", "<", ...; "SUP2" stands for     *)
(* U+00B2, a character for which str.isdigit() is True and int() raises).  *)
(* A JSON value is a record [t, s, n, ks, xs, e]: t is its type ("str",     *)
(* "int", "bool", "null", "list", "dict"), s the characters of a str, n    *)
(* the number of an int (1 or 0 for a bool), xs the elements of a list or  *)
(* the values of a dict and ks the keys of a dict, in insertion order      *)
(* (keys are TLA+ strings).  A raised exception is a record of the same    *)
(* shape with t = "raise" and e the name of the exception.                 *)
(***************************************************************************)
EXTENDS Integers, Sequences, FiniteSets, TLC

VARIABLES
    \* deref(val, data): the call's arguments, position and outcome
    d_pc, d_val, d_table, d_out,
    \* clean_html_content(content): argument, position and outcome
    c_pc, c_in, c_out,
    \* get_leads(limit, offset)
    pc,            \* position in get_leads
    limit, offset, \* the arguments
    conn,          \* "none" | "open" | "closed": the sqlite3 connection
    opened,        \* number of connections opened by this invocation
    nrows,         \* rows of the cursor consumed so far
    last_started,  \* startedAt of the last row consumed (rows come DESC)
    row,           \* the last row consumed and what its iteration did
    all_leads,     \* the accumulated collection
    ok_leads,      \* history: the leads of the rows whose iteration did not raise
    unique_leads,  \* after the dedup loop (pre-sort order)
    sorted_leads,  \* after unique_leads.sort(...)
    result         \* the returned envelope, or the exception that escaped

dvars == <<d_pc, d_val, d_table, d_out>>
cvars == <<c_pc, c_in, c_out>>
gvars == <<pc, limit, offset, conn, opened, nrows, last_started, row,
           all_leads, ok_leads, unique_leads, sorted_leads, result>>
vars == <<dvars, cvars, gvars>>

-----------------------------------------------------------------------------
(* Bounds of the model *)

MaxTable == 2
MaxRows == 3
MaxLimit == 2

-----------------------------------------------------------------------------
(* Characters and Python str primitives *)

Digits == <<"0", "1", "2", "3", "4", "5", "6", "7", "8", "9">>

Lower == {"a", "b", "c", "d", "e", "f", "g", "h", "i", "j", "k", "l", "m",
          "n", "o", "p", "q", "r", "s", "t", "u", "v", "w", "x", "y", "z"}

Upper == {"A", "B", "C", "D", "E", "F", "G", "H", "I", "J", "K", "L", "M",
          "N", "O", "P", "Q", "R", "S", "T", "U", "V", "W", "X", "Y", "Z"}

\* Unicode decimal digits (category Nd): what int() and the regex \d accept
IsDecimalChar(c) == \E i \in 1..10 : Digits[i] = c

\* str.isdigit() per character: decimal digits and other digit characters
\* such as the superscript two
IsDigitChar(c) == IsDecimalChar(c) \/ c = "SUP2"

\* regex \s
IsSpace(c) == c \in {" ", "\t", "\n"}

\* regex \w (str pattern: alphanumerics and the underscore)
IsWord(c) == c \in Lower \/ c \in Upper \/ IsDigitChar(c) \/ c = "_"

\* code-point order of the characters that occur in compared strings
CodeOrder == <<" ", "-", "0", "1", "2", "3", "4", "5", "6", "7", "8", "9", ":">>

Ord(c) == CHOOSE i \in 1..Len(CodeOrder) : CodeOrder[i] = c

\* Python's str < str: lexicographic by code point, a proper prefix is smaller
RECURSIVE StrLess(_, _)
StrLess(a, b) ==
    IF b = <<>> THEN FALSE
    ELSE IF a = <<>> THEN TRUE
    ELSE IF Ord(Head(a)) # Ord(Head(b)) THEN Ord(Head(a)) < Ord(Head(b))
    ELSE StrLess(Tail(a), Tail(b))

\* str.isdigit(): non-empty and every character a digit character
isdigit(s) == s # <<>> /\ \A i \in 1..Len(s) : IsDigitChar(s[i])

isdecimal(s) == s # <<>> /\ \A i \in 1..Len(s) : IsDecimalChar(s[i])

DigitVal(c) == (CHOOSE i \in 1..10 : Digits[i] = c) - 1

\* int(s) for a string of decimal digits
RECURSIVE int(_)
int(s) ==
    IF s = <<>> THEN 0
    ELSE 10 * int(SubSeq(s, 1, Len(s) - 1)) + DigitVal(s[Len(s)])

\* whether pat occurs in s at position i
MatchAt(s, i, pat) ==
    /\ i + Len(pat) - 1 <= Len(s)
    /\ \A k \in 1..Len(pat) : s[i + k - 1] = pat[k]

\* Python's `pat in s` for strings
Contains(s, pat) == \E i \in 1..(Len(s) + 1) : MatchAt(s, i, pat)

-----------------------------------------------------------------------------
(* JSON values *)

J(t, s, n, ks, xs, e) == [t |-> t, s |-> s, n |-> n, ks |-> ks, xs |-> xs, e |-> e]

S(s) == J("str", s, 0, <<>>, <<>>, "")
N(n) == J("int", <<>>, n, <<>>, <<>>, "")
B(b) == J("bool", <<>>, IF b THEN 1 ELSE 0, <<>>, <<>>, "")
Null == J("null", <<>>, 0, <<>>, <<>>, "")
L(xs) == J("list", <<>>, 0, <<>>, xs, "")
Dict(ks, xs) == J("dict", <<>>, 0, ks, xs, "")
\* a dict literal, from its <<key, value>> pairs
D(kvs) == Dict([i \in 1..Len(kvs) |-> kvs[i][1]], [i \in 1..Len(kvs) |-> kvs[i][2]])
Raise(e) == J("raise", <<>>, 0, <<>>, <<>>, e)

IsRaise(x) == x.t = "raise"

\* `k in d` for a dict
Has(d, k) == \E i \in 1..Len(d.ks) : d.ks[i] = k

\* d[k] for a key that is present
Get(d, k) == d.xs[CHOOSE i \in 1..Len(d.ks) : d.ks[i] = k]

\* d.get(k, default)
GetOr(d, k, default) == IF Has(d, k) THEN Get(d, k) ELSE default

\* d[k] = x: an existing key keeps its place, a new key goes last
Set(d, k, x) ==
    IF Has(d, k)
    THEN Dict(d.ks, [i \in 1..Len(d.xs) |-> IF d.ks[i] = k THEN x ELSE d.xs[i]])
    ELSE Dict(Append(d.ks, k), Append(d.xs, x))

\* Python truthiness
Truthy(x) ==
    CASE x.t = "str" -> x.s # <<>>
      [] x.t = "int" -> x.n # 0
      [] x.t = "bool" -> x.n # 0
      [] x.t = "null" -> FALSE
      [] x.t = "list" -> x.xs # <<>>
      [] x.t = "dict" -> x.xs # <<>>

\* whether hash(x) succeeds (set membership needs it)
Hashable(x) == x.t \notin {"list", "dict"}

-----------------------------------------------------------------------------
(* deref *)

\* the first exception among a sequence of results, in evaluation order
FirstRaise(rs) == rs[CHOOSE i \in 1..Len(rs) :
                        /\ IsRaise(rs[i])
                        /\ \A j \in 1..(i - 1) : ~IsRaise(rs[j])]

AnyRaise(rs) == \E i \in 1..Len(rs) : IsRaise(rs[i])

RECURSIVE deref(_, _)
deref(val, data) ==
    IF val.t = "str" /\ isdigit(val.s)
    THEN \* idx = int(val): raises ValueError for a digit that is not decimal
         IF ~isdecimal(val.s) THEN Raise("ValueError")
         ELSE IF int(val.s) < Len(data)
              THEN deref(data[int(val.s) + 1], data)
              ELSE val
    ELSE IF val.t = "dict"
    THEN LET rs == [i \in 1..Len(val.xs) |-> deref(val.xs[i], data)]
         IN  IF AnyRaise(rs) THEN FirstRaise(rs) ELSE Dict(val.ks, rs)
    ELSE IF val.t = "list"
    THEN LET rs == [i \in 1..Len(val.xs) |-> deref(val.xs[i], data)]
         IN  IF AnyRaise(rs) THEN FirstRaise(rs) ELSE L(rs)
    ELSE val

-----------------------------------------------------------------------------
(* clean_html_content: re.sub over character sequences *)

\* length of the longest run of characters satisfying P that starts at i
RunLen(s, i, P(_)) ==
    IF \E j \in i..Len(s) : ~P(s[j])
    THEN (CHOOSE j \in i..Len(s) : ~P(s[j]) /\ \A k \in i..(j - 1) : P(s[k])) - i
    ELSE Len(s) - i + 1

\* The scan of re.sub that arrives at position a, over the positions below b.
\* m[i] is the length of the match at i (0 for none); the scan examines a,
\* then resumes after the match, or at the next character when there is
\* none.  The result holds the positions examined and the position at which
\* the scan leaves the interval.  The interval is halved to keep the
\* evaluation shallow.
RECURSIVE Scan(_, _, _)
Scan(m, a, b) ==
    IF b - a <= 1
    THEN [at |-> {a}, next |-> a + (IF m[a] > 0 THEN m[a] ELSE 1)]
    ELSE LET left == Scan(m, a, (a + b) \div 2)
         IN  IF left.next >= b THEN left
             ELSE LET right == Scan(m, left.next, b)
                  IN  [at |-> left.at \cup right.at, next |-> right.next]

\* the concatenation of out[a], ..., out[b]
RECURSIVE Flat(_, _, _)
Flat(out, a, b) ==
    IF a > b THEN <<>>
    ELSE IF a = b THEN out[a]
    ELSE Flat(out, a, (a + b) \div 2) \o Flat(out, (a + b) \div 2 + 1, b)

\* re.sub(pattern, rep, s): scan left to right; where the pattern matches
\* (M gives the length of the match at a position of the original string, 0
\* for none) emit rep and resume after the match, else keep the character
SubAll(s, M(_, _), rep) ==
    IF s = <<>> THEN <<>>
    ELSE LET m == [i \in 1..Len(s) |-> M(s, i)]
             at == Scan(m, 1, Len(s) + 1).at
         IN  Flat([i \in 1..Len(s) |->
                      IF i \notin at THEN <<>>
                      ELSE IF m[i] > 0 THEN rep ELSE <<s[i]>>], 1, Len(s))

\* a literal pattern
LitLen(s, i, lit) == IF MatchAt(s, i, lit) THEN Len(lit) ELSE 0

SubLit(s, lit, rep) ==
    LET M(x, i) == LitLen(x, i, lit) IN SubAll(s, M, rep)

\* !--.*?-- : the shortest span from "!--" to a following "--", within a line
CommentLen(s, i) ==
    LET ends == {j \in (i + 3)..(Len(s) - 1) : MatchAt(s, j, <<"-", "-">>)}
        j == CHOOSE e \in ends : \A f \in ends : e <= f
    IN  IF ~MatchAt(s, i, <<"!", "-", "-">>) \/ ends = {} THEN 0
        ELSE IF \E k \in (i + 3)..(j - 1) : s[k] = "\n" THEN 0
        ELSE j + 2 - i

\* <[^>]*> : from "<" to the first ">" after it
TagLen(s, i) ==
    LET ends == {j \in (i + 1)..Len(s) : s[j] = ">"}
    IN  IF s[i] # "<" \/ ends = {} THEN 0
        ELSE (CHOOSE e \in ends : \A f \in ends : e <= f) - i + 1

\* lit\s*C+ : the literal, optional whitespace, then one or more characters
\* of class C (\w for `div class=` and `span class=`, [^\s>] for `a href=`)
AttrLen(s, i, lit, C(_)) ==
    LET ws == RunLen(s, i + Len(lit), IsSpace)
        run == RunLen(s, i + Len(lit) + ws, C)
    IN  IF MatchAt(s, i, lit) /\ run > 0 THEN Len(lit) + ws + run ELSE 0

IsHrefChar(c) == ~IsSpace(c) /\ c # ">"

\* \bword\b : the word with no word character on either side
WordLen(s, i, w) ==
    IF /\ MatchAt(s, i, w)
       /\ (i = 1 \/ ~IsWord(s[i - 1]))
       /\ (i + Len(w) > Len(s) \/ ~IsWord(s[i + Len(w)]))
    THEN Len(w) ELSE 0

SubWord(s, w) ==
    LET M(x, i) == WordLen(x, i, w) IN SubAll(s, M, <<>>)

\* [a-zA-Z0-9#]
IsEntityChar(c) == c \in Lower \/ c \in Upper \/ IsDecimalChar(c) \/ c = "#"

\* lead C+ ; : the leading character, one or more of class C, a semicolon
EntityLen(s, i, lead, C(_)) ==
    LET run == RunLen(s, i + 1, C)
    IN  IF /\ s[i] = lead /\ run > 0
           /\ i + 1 + run <= Len(s) /\ s[i + 1 + run] = ";"
        THEN run + 2 ELSE 0

\* \s+
SpaceLen(s, i) == RunLen(s, i, IsSpace)

\* str.strip()
RECURSIVE strip(_)
strip(s) ==
    IF s = <<>> THEN s
    ELSE IF IsSpace(Head(s)) THEN strip(Tail(s))
    ELSE IF IsSpace(s[Len(s)]) THEN strip(SubSeq(s, 1, Len(s) - 1))
    ELSE s

\* line 24
RemoveComments(s) == SubAll(s, CommentLen, <<>>)

\* lines 27-37
RemoveTags(s) ==
    LET MDiv(x, i) == AttrLen(x, i, <<"d", "i", "v", " ", "c", "l", "a", "s", "s", "=">>, IsWord)
        MSpan(x, i) == AttrLen(x, i, <<"s", "p", "a", "n", " ", "c", "l", "a", "s", "s", "=">>, IsWord)
        MHref(x, i) == AttrLen(x, i, <<"a", " ", "h", "r", "e", "f", "=">>, IsHrefChar)
        s1 == SubAll(s, TagLen, <<>>)
        s2 == SubAll(s1, MDiv, <<>>)
        s3 == SubAll(s2, MSpan, <<>>)
        s4 == SubAll(s3, MHref, <<>>)
        s5 == SubLit(s4, <<"/", "d", "i", "v">>, <<>>)
        s6 == SubLit(s5, <<"/", "s", "p", "a", "n">>, <<>>)
        s7 == SubLit(s6, <<"/", "a">>, <<>>)
        s8 == SubLit(s7, <<"/", "p">>, <<>>)
        s9 == SubWord(s8, <<"p">>)
        s10 == SubWord(s9, <<"m", "d">>)
    IN  SubWord(s10, <<"b", "r">>)

\* lines 40-41
RemoveEntities(s) ==
    LET MEnt(x, i) == EntityLen(x, i, "&", IsEntityChar)
        MNum(x, i) == EntityLen(x, i, "#", IsDecimalChar)
    IN  SubAll(SubAll(s, MEnt, <<" ">>), MNum, <<>>)

RemoveArtifactsKeepLink(s) ==
    SubLit(SubLit(s, <<"s", "u", "b", "m", "i", "t", "t", "e", "d", " ", "b", "y">>, <<>>), <<"[", "c", "o", "m", "m", "e", "n", "t", "s", "]">>, <<>>)

\* lines 44-46
RemoveArtifacts(s) ==
    SubLit(SubLit(SubLit(s, <<"s", "u", "b", "m", "i", "t", "t", "e", "d", " ", "b", "y">>, <<>>), <<"[", "l", "i", "n", "k", "]">>, <<>>), <<"[", "c", "o", "m", "m", "e", "n", "t", "s", "]">>, <<>>)

\* lines 49-50
CleanWhitespace(s) == strip(SubAll(s, SpaceLen, <<" ">>))

\* clean_html_content(content): '' for a falsy argument; re.sub raises
\* TypeError for an argument that is not a string
clean_html_content(content) ==
    IF ~Truthy(content) THEN S(<<>>)
    ELSE IF content.t # "str" THEN Raise("TypeError")
    ELSE S(CleanWhitespace(RemoveArtifacts(RemoveEntities(
             RemoveTags(RemoveComments(content.s))))))

-----------------------------------------------------------------------------
(* Specification of a deref call: the arguments are drawn from bounded      *)
(* sets of values and acyclic tables, then the call is made.               *)

DerefAtoms == {S(<<"0">>), S(<<"1">>), S(<<"0", "1">>), S(<<"2">>),
               S(<<"SUP2">>), S(<<"a">>), S(<<>>), N(7), Null, B(TRUE)}

DerefValues ==
    DerefAtoms
    \cup {D(<< <<"k", a>> >>) : a \in DerefAtoms}
    \cup {L(<<a, S(<<"0">>)>>) : a \in DerefAtoms}
    \cup {D(<< <<"k", L(<<a>>)>>, <<"j", N(1)>> >>) : a \in DerefAtoms}

TableElems == {S(<<"0">>), S(<<"1">>), S(<<"0", "1">>), S(<<"2">>), S(<<"a">>),
               N(7), D(<< <<"k", S(<<"1">>)>> >>), L(<<S(<<"0">>)>>)}

Tables == UNION {[1..n -> TableElems] : n \in 0..MaxTable}

\* the table positions a value refers to, at any depth
RECURSIVE Refs(_, _)
Refs(val, n) ==
    IF val.t = "str"
    THEN IF isdecimal(val.s) /\ int(val.s) < n THEN {int(val.s) + 1} ELSE {}
    ELSE IF val.t \in {"dict", "list"}
    THEN UNION {Refs(val.xs[i], n) : i \in 1..Len(val.xs)}
    ELSE {}

RECURSIVE ReachIn(_, _, _)
ReachIn(from, T, k) ==
    IF k = 0 THEN from
    ELSE ReachIn(from \cup UNION {Refs(T[i], Len(T)) : i \in from}, T, k - 1)

\* no table position refers, directly or through others, to itself
Acyclic(T) ==
    \A i \in 1..Len(T) : i \notin ReachIn(Refs(T[i], Len(T)), T, Len(T))

\* the value of row before any row has been consumed
NoRow == [blob |-> [enc |-> "none", json |-> Null], leads |-> <<>>, err |-> FALSE]

InitIdleGetLeads ==
    /\ pc = "idle" /\ limit = 0 /\ offset = 0 /\ conn = "none" /\ opened = 0
    /\ nrows = 0 /\ last_started = <<>> /\ row = NoRow
    /\ all_leads = <<>> /\ ok_leads = <<>> /\ unique_leads = <<>>
    /\ sorted_leads = <<>> /\ result = Null

InitIdleClean == c_pc = "idle" /\ c_in = Null /\ c_out = Null

InitIdleDeref == d_pc = "idle" /\ d_val = Null /\ d_table = <<>> /\ d_out = Null

InitDeref ==
    /\ d_pc = "call"
    /\ d_val \in DerefValues
    /\ d_table \in {T \in Tables : Acyclic(T)}
    /\ d_out = Null
    /\ InitIdleClean
    /\ InitIdleGetLeads

DerefCall ==
    /\ d_pc = "call"
    /\ d_out' = deref(d_val, d_table)
    /\ d_pc' = "done"
    /\ UNCHANGED <<d_val, d_table, cvars, gvars>>

NextDeref == DerefCall

SpecDeref == InitDeref /\ [][NextDeref]_vars

\* C8: for every acyclic table T and every value v, deref(v, T) ends with a
\* value (no exception) that is: deref(T[i], T) when v is a string of decimal
\* digits whose index i is below len(T); a mapping with the same keys and every
\* value deindexed when v is a mapping; the element-wise deindexed sequence of
\* the same length when v is a sequence; v itself otherwise.
C8_DerefIsResolver ==
    d_pc = "done" =>
        /\ ~IsRaise(d_out)
        /\ IF d_val.t = "str" /\ isdecimal(d_val.s) /\ int(d_val.s) < Len(d_table)
           THEN d_out = deref(d_table[int(d_val.s) + 1], d_table)
           ELSE IF d_val.t = "dict"
           THEN /\ d_out.t = "dict"
                /\ d_out.ks = d_val.ks
                /\ Len(d_out.xs) = Len(d_val.xs)
                /\ \A i \in 1..Len(d_val.xs) :
                      d_out.xs[i] = deref(d_val.xs[i], d_table)
           ELSE IF d_val.t = "list"
           THEN /\ d_out.t = "list"
                /\ Len(d_out.xs) = Len(d_val.xs)
                /\ \A i \in 1..Len(d_val.xs) :
                      d_out.xs[i] = deref(d_val.xs[i], d_table)
           ELSE d_out = d_val

-----------------------------------------------------------------------------
(* Specification of a clean_html_content call: the argument is drawn from   *)
(* the texts made of the fragments below, then the call is made.           *)

CleanFrags == <<
    <<"<", "p", ">">>,
    <<"H", "e", "l", "l", "o", " ">>,
    <<"&", "a", "m", "p", ";">>,
    <<" ", "w", "e", "l", "c", "o", "m", "e", " ">>,
    <<"[", "l", "i", "n", "k", "]">>,
    <<" ", "s", "u", "b", "m", "i", "t", "t", "e", "d", " ", "b", "y">>,
    <<" ", "b", "o", "b">>,
    <<"<", "/", "p", ">">> >>

CleanPrefixes == {
    <<>>,
    <<"!", "-", "-", "x", "-", "-">>,
    <<"d", "i", "v", " ", "c", "l", "a", "s", "s", "=", " ", "m", "d", " ">>,
    <<"a", " ", "h", "r", "e", "f", "=", "u", ">", " ", "b", "r", " ">>,
    <<"#", "3", "9", ";", " ", "[", "c", "o", "m", "m", "e", "n", "t", "s", "]">>,
    <<"/", "d", "i", "v", " ", "p">>,
    <<"<", "b">> }

RECURSIVE Join(_, _, _)
Join(frags, keep, i) ==
    IF i > Len(frags) THEN <<>>
    ELSE (IF i \in keep THEN frags[i] ELSE <<>>) \o Join(frags, keep, i + 1)

CleanInputs ==
    {S(pre \o Join(CleanFrags, keep, 1)) :
        pre \in CleanPrefixes, keep \in SUBSET (1..Len(CleanFrags))}
    \cup {Null, N(5), L(<<S(<<"a">>)>>)}

\* "<p>Hello &amp; welcome [link] submitted by bob</p>"
CleanExample == S(Join(CleanFrags, 1..Len(CleanFrags), 1))

InitClean ==
    /\ c_pc = "call"
    /\ c_in \in CleanInputs
    /\ c_out = Null
    /\ InitIdleDeref
    /\ InitIdleGetLeads

CleanCall ==
    /\ c_pc = "call"
    /\ c_out' = clean_html_content(c_in)
    /\ c_pc' = "done"
    /\ UNCHANGED <<c_in, dvars, gvars>>

NextClean == CleanCall

SpecClean == InitClean /\ [][NextClean]_vars

\* C7 as stated: cleaning "<p>Hello &amp; welcome [link] submitted by bob</p>"
\* yields exactly "Hello welcome".
C7_ExampleYieldsHelloWelcome ==
    (c_pc = "done" /\ c_in = CleanExample) => c_out = S(<<"H", "e", "l", "l", "o", " ", "w", "e", "l", "c", "o", "m", "e">>)

\* C7 amended: cleaning "<p>Hello &amp; welcome [link] submitted by bob</p>"
\* yields exactly "Hello welcome bob": the phrase `submitted by` is removed,
\* the name that follows it is kept.
C7_ExampleYieldsHelloWelcomeBob ==
    (c_pc = "done" /\ c_in = CleanExample) => c_out = S(<<"H", "e", "l", "l", "o", " ", "w", "e", "l", "c", "o", "m", "e", " ", "b", "o", "b">>)

C7_Witness == c_pc = "done" /\ c_in = CleanExample /\ c_out.t = "str"

-----------------------------------------------------------------------------
(* extract_leads_from_execution and the walk of resultData.runData *)

\* the outcome of a walk: the leads appended so far and whether it raised
Walked(acc, err) == [acc |-> acc, err |-> err]

\* lines 70-76: every dict of the array that has title, subreddit and link,
\* dereferenced against the whole array; an exception of deref escapes
extract_leads_from_execution(data) ==
    LET picked == SelectSeq(data, LAMBDA item :
                      /\ item.t = "dict"
                      /\ Has(item, "title") /\ Has(item, "subreddit")
                      /\ Has(item, "link"))
        leads == [i \in 1..Len(picked) |-> deref(picked[i], data)]
    IN  IF AnyRaise(leads) THEN Walked(<<>>, TRUE) ELSE Walked(leads, FALSE)

KeyChars(k) == IF k = "title" THEN <<"t", "i", "t", "l", "e">> ELSE <<"l", "i", "n", "k">>

\* `k in x` raises TypeError when x is not a container
InRaises(x) == x.t \in {"int", "bool", "null"}

\* `k in x`: a key of a dict, an element of a list, a substring of a str
InHolds(k, x) ==
    CASE x.t = "dict" -> Has(x, k)
      [] x.t = "list" -> \E i \in 1..Len(x.xs) : x.xs[i] = S(KeyChars(k))
      [] x.t = "str" -> Contains(x.s, KeyChars(k))

\* lines 136-141: one item of an item list
ItemStep(item, st, started_at, exec_id) ==
    IF item.t = "dict" /\ Has(item, "json")
    THEN LET lead_data == Get(item, "json")
         IN  IF InRaises(lead_data) THEN Walked(st.acc, TRUE)
             ELSE IF ~(InHolds("title", lead_data) /\ InHolds("link", lead_data))
             THEN st
             \* lead_data['foundAt'] = ...: TypeError unless a dict
             ELSE IF lead_data.t # "dict" THEN Walked(st.acc, TRUE)
             ELSE Walked(Append(st.acc,
                      Set(Set(lead_data, "foundAt", started_at),
                          "executionId", exec_id)), FALSE)
    ELSE st

\* lines 135-141: `for item in item_list`
RECURSIVE WalkItems(_, _, _, _, _)
WalkItems(items, i, st, started_at, exec_id) ==
    IF st.err \/ i > Len(items) THEN st
    ELSE WalkItems(items, i + 1,
                   ItemStep(items[i], st, started_at, exec_id),
                   started_at, exec_id)

\* lines 133-141: `for item_list in main_data`
RECURSIVE WalkLists(_, _, _, _, _)
WalkLists(lists, i, st, started_at, exec_id) ==
    IF st.err \/ i > Len(lists) THEN st
    ELSE WalkLists(lists, i + 1,
                   IF lists[i].t = "list"
                   THEN WalkItems(lists[i].xs, 1, st, started_at, exec_id)
                   ELSE st,
                   started_at, exec_id)

\* lines 130-141: one run of a node
RunStep(run, st, started_at, exec_id) ==
    IF run.t = "dict" /\ Has(run, "data")
    THEN \* run['data'].get: AttributeError unless a dict
         IF Get(run, "data").t # "dict" THEN Walked(st.acc, TRUE)
         ELSE LET main_data == GetOr(Get(run, "data"), "main", L(<<L(<<>>)>>))
              IN  IF ~Truthy(main_data) THEN st
                  \* len(main_data): TypeError for a number
                  ELSE IF main_data.t \in {"int", "bool"} THEN Walked(st.acc, TRUE)
                  \* iterating a str or a dict yields strings, never lists
                  ELSE IF main_data.t # "list" THEN st
                  ELSE WalkLists(main_data.xs, 1, st, started_at, exec_id)
    ELSE st

\* lines 129-141: `for run in node_data`
RECURSIVE WalkRuns(_, _, _, _, _)
WalkRuns(runs, i, st, started_at, exec_id) ==
    IF st.err \/ i > Len(runs) THEN st
    ELSE WalkRuns(runs, i + 1, RunStep(runs[i], st, started_at, exec_id),
                  started_at, exec_id)

\* lines 127-141: `for node_name, node_data in run_data.items()`; nodes are
\* the values of run_data
RECURSIVE WalkNodes(_, _, _, _, _)
WalkNodes(nodes, i, st, started_at, exec_id) ==
    IF st.err \/ i > Len(nodes) THEN st
    ELSE WalkNodes(nodes, i + 1,
                   IF nodes[i].t = "list"
                   THEN WalkRuns(nodes[i].xs, 1, st, started_at, exec_id)
                   ELSE st,
                   started_at, exec_id)

\* lines 123-141: the leads appended from exec_data['resultData'], each
\* appended to all_leads as soon as it is found
RunDataLeads(exec_data, started_at, exec_id) ==
    LET res == Get(exec_data, "resultData")
    IN  IF res.t = "dict" /\ Has(res, "runData")
        THEN \* run_data.items(): AttributeError unless a dict
             IF Get(res, "runData").t # "dict" THEN Walked(<<>>, TRUE)
             ELSE WalkNodes(Get(res, "runData").xs, 1, Walked(<<>>, FALSE),
                            started_at, exec_id)
        ELSE Walked(<<>>, FALSE)

\* lines 144-149: the leads of the indexed array, appended once all of them
\* have been extracted
IndexedLeads(data_array, started_at, exec_id) ==
    IF Truthy(data_array) /\ data_array.t = "list"
    THEN LET ex == extract_leads_from_execution(data_array.xs)
         IN  IF ex.err THEN ex
             ELSE Walked([i \in 1..Len(ex.acc) |->
                            Set(Set(ex.acc[i], "foundAt", started_at),
                                "executionId", exec_id)], FALSE)
    ELSE Walked(<<>>, FALSE)

\* lines 116-121: data_array (None when neither shape applies)
DataArray(exec_data) ==
    IF exec_data.t = "list" THEN exec_data
    ELSE IF exec_data.t = "dict" /\ Has(exec_data, "data")
    THEN Get(exec_data, "data")
    ELSE Null

LocateLeadsBothBranches(exec_data, started_at, exec_id) ==
    LET b == IF exec_data.t = "dict" /\ Has(exec_data, "resultData")
             THEN RunDataLeads(exec_data, started_at, exec_id)
             ELSE Walked(<<>>, FALSE)
        a == IndexedLeads(DataArray(exec_data), started_at, exec_id)
    IN  IF b.err THEN b ELSE Walked(b.acc \o a.acc, a.err)

\* lines 115-149: what one parsed payload appends to all_leads, and whether
\* the iteration raised.  The runData walk is the `elif` of the `data` test.
LocateLeads(exec_data, started_at, exec_id) ==
    LET b == IF /\ exec_data.t = "dict"
                /\ ~Has(exec_data, "data")
                /\ Has(exec_data, "resultData")
             THEN RunDataLeads(exec_data, started_at, exec_id)
             ELSE Walked(<<>>, FALSE)
        a == IndexedLeads(DataArray(exec_data), started_at, exec_id)
    IN  IF b.err THEN b ELSE Walked(b.acc \o a.acc, a.err)

\* lines 106-113: the payload text of a blob, parsed.  A blob is a str, a
\* zlib stream of UTF-8 JSON text ("zlib"), UTF-8 bytes that are no zlib
\* stream ("bytes"), or bytes that are neither ("garbage"); json is what
\* json.loads makes of the text.
ParseBlob(blob) ==
    IF blob.enc = "garbage" THEN Raise("UnicodeDecodeError") ELSE blob.json

\* lines 102-153: one iteration of `for row in rows`
ProcessRow(exec_id, started_at, blob) ==
    LET exec_data == ParseBlob(blob)
    IN  IF IsRaise(exec_data) THEN Walked(<<>>, TRUE)
        ELSE LocateLeads(exec_data, started_at, N(exec_id))

-----------------------------------------------------------------------------
(* The stored executions the model draws rows from *)

ArrayRefs ==
    [enc |-> "zlib", json |->
     L(<<D(<<<<"title", S(<<"1">>)>>, <<"subreddit", S(<<"2">>)>>, <<"link",
     S(<<"3">>)>>, <<"foundAt", S(<<"4">>)>>, <<"executionId", N(77)>>>>),
     S(<<"T", "1">>), S(<<"r", "/", "p", "h", "x">>), S(<<"L", "1">>), S(<<"2",
     "0", "3", "0", "-", "0", "1">>)>>)]

ArrayDups ==
    [enc |-> "str", json |->
     L(<<D(<<<<"title", S(<<"a">>)>>, <<"subreddit", S(<<"r", "/", "x">>)>>,
     <<"link", S(<<"L", "2">>)>>, <<"author", S(<<"u", "/", "b", "o", "b">>)>>,
     <<"content", S(<<"<", "p", ">", "h", "i", " ", "&", "a", "m", "p", ";",
     " ", "b", "y", "e", "<", "/", "p", ">">>)>>>>), D(<<<<"title",
     S(<<"b">>)>>, <<"subreddit", S(<<"s">>)>>, <<"link", S(<<>>)>>>>),
     D(<<<<"title", S(<<"c">>)>>, <<"subreddit", S(<<"s">>)>>, <<"link",
     S(<<"L", "1">>)>>>>), D(<<<<"title", S(<<"d">>)>>, <<"subreddit",
     S(<<"s">>)>>, <<"link", S(<<"L", "2">>)>>>>)>>)]

ArrayRaises ==
    [enc |-> "str", json |->
     L(<<D(<<<<"title", S(<<"a">>)>>, <<"subreddit", S(<<"s">>)>>, <<"link",
     S(<<"L", "3">>)>>>>), D(<<<<"title", S(<<"b">>)>>, <<"subreddit",
     S(<<"s">>)>>, <<"link", S(<<"L", "1">>)>>, <<"unit", S(<<"SUP2">>)>>>>)>>)]

ArrayBadSubreddit ==
    [enc |-> "str", json |->
     L(<<D(<<<<"title", S(<<"a">>)>>, <<"subreddit", N(5)>>, <<"link", S(<<"L",
     "3">>)>>>>)>>)]

ArrayListLink ==
    [enc |-> "str", json |->
     L(<<D(<<<<"title", S(<<"a">>)>>, <<"subreddit", S(<<"s">>)>>, <<"link",
     L(<<S(<<"x">>)>>)>>>>)>>)]

RunData ==
    [enc |-> "bytes", json |->
     D(<<<<"resultData", D(<<<<"runData", D(<<<<"n", L(<<D(<<<<"data",
     D(<<<<"main", L(<<L(<<D(<<<<"json", D(<<<<"title", S(<<"r">>)>>, <<"link",
     S(<<"L", "1">>)>>, <<"foundAt", S(<<"2", "0", "3", "0", "-", "0",
     "1">>)>>, <<"executionId",
     N(77)>>>>)>>>>)>>)>>)>>>>)>>>>)>>)>>>>)>>>>)>>>>)]

RunDataPartial ==
    [enc |-> "str", json |->
     D(<<<<"resultData", D(<<<<"runData", D(<<<<"n", L(<<D(<<<<"data",
     D(<<<<"main", L(<<L(<<D(<<<<"json", D(<<<<"title", S(<<"p">>)>>, <<"link",
     S(<<"L", "1">>)>>>>)>>>>), D(<<<<"json",
     N(5)>>>>)>>)>>)>>>>)>>>>)>>)>>>>)>>>>)>>>>)]

DataAndRunData ==
    [enc |-> "str", json |->
     D(<<<<"data", L(<<D(<<<<"title", S(<<"a">>)>>, <<"subreddit",
     S(<<"s">>)>>, <<"link", S(<<"L", "2">>)>>>>)>>)>>, <<"resultData",
     D(<<<<"runData", D(<<<<"n", L(<<D(<<<<"data", D(<<<<"main",
     L(<<L(<<D(<<<<"json", D(<<<<"title", S(<<"t">>)>>, <<"link", S(<<"L",
     "3">>)>>>>)>>>>)>>)>>)>>>>)>>>>)>>)>>>>)>>>>)>>>>)]

Unparsable == [enc |-> "garbage", json |-> Raise("JSONDecodeError")]

Blobs == <<ArrayRefs, ArrayDups, ArrayRaises, ArrayBadSubreddit, ArrayListLink,
          RunData, RunDataPartial, DataAndRunData, Unparsable>>

Timestamps == {S(<<"2", "0", "2", "4", "-", "0", "1">>), S(<<"2", "0", "2", "4", "-", "0", "3">>)}

-----------------------------------------------------------------------------
(* get_leads: dedup, sort, pagination, normalization *)

\* LIMIT 200 of the query
RowLimit == 200

\* the [:300] of the content field
ContentMax == 300

LinkOf(lead) == GetOr(lead, "link", S(<<>>))

\* lines 163-165: `link not in seen_links` hashes a truthy link
DedupRaises(leads) ==
    \E i \in 1..Len(leads) : Truthy(LinkOf(leads[i])) /\ ~Hashable(LinkOf(leads[i]))

DedupKeepLast(leads) ==
    LET keep == {i \in 1..Len(leads) :
                    /\ Truthy(LinkOf(leads[i]))
                    /\ \A j \in (i + 1)..Len(leads) : LinkOf(leads[j]) # LinkOf(leads[i])}
        F[i \in 0..Len(leads)] ==
            IF i = 0 THEN <<>>
            ELSE IF i \in keep THEN Append(F[i - 1], leads[i]) ELSE F[i - 1]
    IN  F[Len(leads)]

\* lines 161-167: the first lead of every truthy link, in accumulation order
Dedup(leads) ==
    LET keep == {i \in 1..Len(leads) :
                    /\ Truthy(LinkOf(leads[i]))
                    /\ \A j \in 1..(i - 1) : LinkOf(leads[j]) # LinkOf(leads[i])}
        F[i \in 0..Len(leads)] ==
            IF i = 0 THEN <<>>
            ELSE IF i \in keep THEN Append(F[i - 1], leads[i]) ELSE F[i - 1]
    IN  F[Len(leads)]

\* the sort key: x.get('foundAt', '')
FoundAtKey(lead) == GetOr(lead, "foundAt", S(<<>>)).s

\* x placed after the elements whose key is not smaller than its own
InsertDesc(sorted, x) ==
    LET n == Cardinality({i \in 1..Len(sorted) :
                 ~StrLess(FoundAtKey(sorted[i]), FoundAtKey(x))})
    IN  SubSeq(sorted, 1, n) \o <<x>> \o SubSeq(sorted, n + 1, Len(sorted))

InsertAsc(sorted, x) ==
    LET n == Cardinality({i \in 1..Len(sorted) :
                 ~StrLess(FoundAtKey(x), FoundAtKey(sorted[i]))})
    IN  SubSeq(sorted, 1, n) \o <<x>> \o SubSeq(sorted, n + 1, Len(sorted))

SortAscending(leads) ==
    LET F[i \in 0..Len(leads)] ==
            IF i = 0 THEN <<>> ELSE InsertAsc(F[i - 1], leads[i])
    IN  F[Len(leads)]

\* line 170: list.sort(key=..., reverse=True): descending and stable
SortByFoundAt(leads) ==
    LET F[i \in 0..Len(leads)] ==
            IF i = 0 THEN <<>> ELSE InsertDesc(F[i - 1], leads[i])
    IN  F[Len(leads)]

\* a slice bound as Python normalises it
ClampIndex(b, n) ==
    IF b < 0 THEN (IF b + n < 0 THEN 0 ELSE b + n)
    ELSE IF b > n THEN n ELSE b

\* s[start:stop]
PySlice(s, start, stop) ==
    LET lo == ClampIndex(start, Len(s))
        hi == ClampIndex(stop, Len(s))
    IN  IF lo >= hi THEN <<>> ELSE SubSeq(s, lo + 1, hi)

PaginateStopAtLimit(leads, lim, off) == PySlice(leads, off, lim)

\* line 174: unique_leads[offset:offset + limit]
Paginate(leads, lim, off) == PySlice(leads, off, off + lim)

\* x.replace(old, '') : AttributeError unless x is a str
replace(x, old) ==
    IF x.t # "str" THEN Raise("AttributeError") ELSE S(SubLit(x.s, old, <<>>))

\* the [:300] of line 185, applied to what clean_html_content returned
Truncate(c) ==
    IF IsRaise(c) THEN c
    ELSE S(SubSeq(c.s, 1, IF Len(c.s) < ContentMax THEN Len(c.s) ELSE ContentMax))

\* line 185
ContentOf(lead) ==
    IF Truthy(GetOr(lead, "content", Null))
    THEN Truncate(clean_html_content(GetOr(lead, "content", S(<<>>))))
    ELSE S(<<>>)

\* lines 179-192 once subreddit, author and content have been evaluated: the
\* normalized lead, or the first exception of its fields
NormalizedLead(lead, subreddit, author, content) ==
    IF IsRaise(subreddit) THEN subreddit
    ELSE IF IsRaise(author) THEN author
    ELSE IF IsRaise(content) THEN content
    ELSE [t |-> "lead",
          id |-> GetOr(lead, "executionId", S(<<>>)),
          title |-> GetOr(lead, "title", S(<<"U", "n", "t", "i", "t", "l", "e", "d">>)),
          subreddit |-> subreddit,
          author |-> author,
          link |-> GetOr(lead, "link", S(<<>>)),
          content |-> content,
          priority |-> GetOr(lead, "priority", S(<<"M", "e", "d", "i", "u", "m">>)),
          score |-> GetOr(lead, "score", N(0)),
          keywords |-> GetOr(lead, "highKeywords",
                             GetOr(lead, "keywords", S(<<>>))),
          location |-> GetOr(lead, "location", S(<<>>)),
          foundAt |-> GetOr(lead, "foundAt", S(<<>>)),
          pubDate |-> GetOr(lead, "pubDate", S(<<>>))]

\* lines 179-192
Normalize(lead) ==
    NormalizedLead(lead,
        replace(GetOr(lead, "subreddit", S(<<>>)), <<"r", "/">>),
        replace(GetOr(lead, "author", S(<<>>)), <<"u", "/">>),
        ContentOf(lead))

\* line 158
ErrorEnvelope(msg) == [error |-> msg, leads |-> <<>>, total |-> 0]

\* lines 195-200
LeadsEnvelope(leads, total, lim, off) ==
    [leads |-> leads, total |-> total, limit |-> lim, offset |-> off]

IsErrorEnvelope(r) == DOMAIN r = {"error", "leads", "total"}
IsLeadsEnvelope(r) == DOMAIN r = {"leads", "total", "limit", "offset"}

-----------------------------------------------------------------------------
(* get_leads as a state machine *)

Limits == (0 - 1)..MaxLimit
Offsets == (0 - 1)..MaxLimit

Init ==
    /\ pc = "connect"
    /\ limit = 0 /\ offset = 0
    /\ conn = "none" /\ opened = 0
    /\ nrows = 0 /\ last_started = <<>> /\ row = NoRow
    /\ all_leads = <<>> /\ ok_leads = <<>>
    /\ unique_leads = <<>> /\ sorted_leads = <<>>
    /\ result = Null
    /\ InitIdleDeref
    /\ InitIdleClean

\* line 85: sqlite3.connect succeeds
Connect ==
    /\ pc = "connect"
    /\ conn' = "open" /\ opened' = opened + 1
    /\ pc' = "execute"
    /\ UNCHANGED <<limit, offset, nrows, last_started, row, all_leads,
                   ok_leads, unique_leads, sorted_leads, result, dvars, cvars>>

\* lines 85, 157-158: sqlite3.connect raises; no connection exists
ConnectFails ==
    /\ pc = "connect"
    /\ result' = ErrorEnvelope("connect")
    /\ pc' = "returned"
    /\ UNCHANGED <<limit, offset, conn, opened, nrows, last_started, row,
                   all_leads, ok_leads, unique_leads, sorted_leads, dvars, cvars>>

\* lines 86-99: cursor, execute and fetchall succeed
Execute ==
    /\ pc = "execute"
    /\ pc' = "rows"
    /\ UNCHANGED <<limit, offset, conn, opened, nrows, last_started, row,
                   all_leads, ok_leads, unique_leads, sorted_leads, result,
                   dvars, cvars>>

\* lines 86-99, 157-158: execute or fetchall raises; control goes to the
\* handler, which returns without touching the connection
ExecuteFails ==
    /\ pc = "execute"
    /\ result' = ErrorEnvelope("query")
    /\ pc' = "returned"
    /\ UNCHANGED <<limit, offset, conn, opened, nrows, last_started, row,
                   all_leads, ok_leads, unique_leads, sorted_leads, dvars, cvars>>

\* lines 101-153: the next row of the result, in startedAt descending order
NextRow ==
    /\ pc = "rows"
    /\ nrows < MaxRows /\ nrows < RowLimit
    /\ \E started_at \in Timestamps, k \in 1..Len(Blobs) :
          /\ nrows = 0 \/ ~StrLess(last_started, started_at.s)
          /\ \E w \in {ProcessRow(nrows + 1, started_at, Blobs[k])} :
                /\ all_leads' = all_leads \o w.acc
                /\ ok_leads' = IF w.err THEN ok_leads ELSE ok_leads \o w.acc
                /\ row' = [blob |-> Blobs[k], leads |-> w.acc, err |-> w.err]
          /\ last_started' = started_at.s
    /\ nrows' = nrows + 1
    /\ UNCHANGED <<pc, limit, offset, conn, opened, unique_leads, sorted_leads,
                   result, dvars, cvars>>

\* line 155: the rows are exhausted
Close ==
    /\ pc = "rows"
    /\ conn' = "closed"
    /\ pc' = "dedup"
    /\ UNCHANGED <<limit, offset, opened, nrows, last_started, row, all_leads,
                   ok_leads, unique_leads, sorted_leads, result, dvars, cvars>>

\* lines 161-167
DedupStep ==
    /\ pc = "dedup"
    /\ IF DedupRaises(all_leads)
       THEN /\ result' = Raise("TypeError")
            /\ pc' = "raised"
            /\ UNCHANGED unique_leads
       ELSE /\ unique_leads' = Dedup(all_leads)
            /\ pc' = "sort"
            /\ UNCHANGED result
    /\ UNCHANGED <<limit, offset, conn, opened, nrows, last_started, row,
                   all_leads, ok_leads, sorted_leads, dvars, cvars>>

\* line 170
SortStep ==
    /\ pc = "sort"
    /\ sorted_leads' = SortByFoundAt(unique_leads)
    /\ pc' = "paginate"
    /\ UNCHANGED <<limit, offset, conn, opened, nrows, last_started, row,
                   all_leads, ok_leads, unique_leads, result, dvars, cvars>>

\* lines 173-200 for given arguments: the envelope returned, or the
\* exception that escapes the normalization loop
Outcome(leads, lim, off) ==
    LET normalized == [i \in 1..Len(Paginate(leads, lim, off)) |->
                          Normalize(Paginate(leads, lim, off)[i])]
    IN  IF AnyRaise(normalized) THEN FirstRaise(normalized)
        ELSE LeadsEnvelope(normalized, Len(leads), lim, off)

\* lines 173-200.  limit and offset, the arguments of get_leads, are first
\* read at line 174: the model draws them here.
Return ==
    /\ pc = "paginate"
    /\ \E lim \in Limits, off \in Offsets :
          /\ limit' = lim /\ offset' = off
          /\ \E r \in {Outcome(sorted_leads, lim, off)} :
                /\ result' = r
                /\ pc' = IF IsLeadsEnvelope(r) THEN "returned" ELSE "raised"
    /\ UNCHANGED <<conn, opened, nrows, last_started, row,
                   all_leads, ok_leads, unique_leads, sorted_leads, dvars, cvars>>

Next ==
    \/ Connect \/ ConnectFails \/ Execute \/ ExecuteFails
    \/ NextRow \/ Close \/ DedupStep \/ SortStep \/ Return

Spec == Init /\ [][Next]_vars

-----------------------------------------------------------------------------
(* Properties of get_leads *)

Returned == pc = "returned" /\ IsLeadsEnvelope(result)

\* C1: a row whose iteration raises contributes no lead to the accumulated
\* collection, and the collection equals the one obtained from the rows
\* whose iteration did not raise.
C1_FailedRowContributesNothing ==
    /\ (nrows > 0 /\ row.err) => row.leads = <<>>
    /\ all_leads = ok_leads

\* C2: get_leads opens at most one connection, and when it returns, the
\* connection it opened has been closed.
C2_ConnectionClosedOnReturn ==
    pc = "returned" => (opened <= 1 /\ (opened = 1 => conn = "closed"))

\* C3: no exception escapes get_leads; it returns the error envelope when
\* the store failed and a leads envelope in every other case.
C3_OnlyStoreFailureIsFatal ==
    /\ pc # "raised"
    /\ pc = "returned" =>
          IF conn = "closed"
          THEN IsLeadsEnvelope(result)
          ELSE IsErrorEnvelope(result) /\ result.leads = <<>> /\ result.total = 0

HasLink(leads, link) == \E i \in 1..Len(leads) : LinkOf(leads[i]) = link

FirstIndex(leads, link) ==
    CHOOSE i \in 1..Len(leads) :
        /\ LinkOf(leads[i]) = link
        /\ \A j \in 1..(i - 1) : LinkOf(leads[j]) # link

\* C4: after the dedup step, every lead of unique_leads has a truthy link and
\* is the first lead of all_leads with that link; the survivors are in
\* accumulation order (hence one per link); every truthy link of all_leads
\* has a survivor.
C4_DedupKeepsFirstPerLink ==
    pc \in {"sort", "paginate"} =>
        /\ \A k \in 1..Len(unique_leads) :
              /\ Truthy(LinkOf(unique_leads[k]))
              /\ HasLink(all_leads, LinkOf(unique_leads[k]))
              /\ unique_leads[k] =
                     all_leads[FirstIndex(all_leads, LinkOf(unique_leads[k]))]
        /\ \A k \in 1..Len(unique_leads) : \A m \in (k + 1)..Len(unique_leads) :
              FirstIndex(all_leads, LinkOf(unique_leads[k]))
                  < FirstIndex(all_leads, LinkOf(unique_leads[m]))
        /\ \A i \in 1..Len(all_leads) :
              Truthy(LinkOf(all_leads[i])) =>
                  HasLink(unique_leads, LinkOf(all_leads[i]))

\* a duplicated link whose two leads differ, a lead with an empty link, and
\* more than one survivor
C4_Witness ==
    /\ pc = "sort"
    /\ Len(unique_leads) >= 2
    /\ \E i \in 1..Len(all_leads) : ~Truthy(LinkOf(all_leads[i]))
    /\ \E i \in 1..Len(all_leads) : \E j \in (i + 1)..Len(all_leads) :
          /\ LinkOf(all_leads[i]) = LinkOf(all_leads[j])
          /\ all_leads[i] # all_leads[j]

Min(a, b) == IF a < b THEN a ELSE b
Max(a, b) == IF a > b THEN a ELSE b

\* C5 as stated: for every integer limit L and offset O the returned list has
\* min(L, max(0, N - O)) items and total is N.
C5_PageSizeForEveryLimitOffset ==
    Returned =>
        /\ result.total = Len(sorted_leads)
        /\ Len(result.leads) = Min(limit, Max(0, Len(sorted_leads) - offset))

\* C5 amended: total is N for every limit and offset; for every limit L >= 0
\* and offset O >= 0 the returned list has min(L, max(0, N - O)) items, so an
\* offset beyond the collection yields an empty list.
C5_PageSizeForNonNegativeLimitOffset ==
    Returned =>
        /\ result.total = Len(sorted_leads)
        /\ (limit >= 0 /\ offset >= 0) =>
              Len(result.leads) = Min(limit, Max(0, Len(sorted_leads) - offset))

\* a page that starts inside the collection and is cut by the limit
C5_Witness ==
    /\ Returned
    /\ offset >= 1 /\ limit >= 1
    /\ Len(sorted_leads) > offset + limit
    /\ Len(result.leads) = limit

\* the payload is an object with a `data` array of lead-like elements and a
\* resultData.runData with lead-like items
BothShapes(blob, started_at, exec_id) ==
    /\ blob.enc \notin {"garbage", "none"}
    /\ blob.json.t = "dict"
    /\ Has(blob.json, "data") /\ Has(blob.json, "resultData")
    /\ IndexedLeads(Get(blob.json, "data"), started_at, exec_id).acc # <<>>
    /\ RunDataLeads(blob.json, started_at, exec_id).acc # <<>>

C9_OutputSortedByFoundAtDescending ==
    Returned =>
        \A i \in 1..(Len(result.leads) - 1) :
            ~StrLess(result.leads[i].foundAt.s, result.leads[i + 1].foundAt.s)

\* two leads of different executions with different timestamps are returned
C9_Witness ==
    /\ Returned
    /\ \E i \in 1..(Len(result.leads) - 1) :
          /\ result.leads[i].foundAt # result.leads[i + 1].foundAt
          /\ result.leads[i].id # result.leads[i + 1].id

\* C10: a returned lead carries the id of a processed row and the startedAt
\* of a row, never a value stored in the payload; a returned lead whose link
\* occurs in several executions that were processed without an exception
\* carries the id and foundAt of the first of them in processing order.
C10_FirstProcessedExecutionWins ==
    Returned =>
        \A i \in 1..Len(result.leads) :
            /\ result.leads[i].id.t = "int"
            /\ result.leads[i].id.n \in 1..nrows
            /\ result.leads[i].foundAt \in Timestamps
            /\ LET from == {j \in 1..Len(ok_leads) :
                               LinkOf(ok_leads[j]) = result.leads[i].link}
                   first == CHOOSE j \in from : \A k \in from : j <= k
               IN  Cardinality({Get(ok_leads[j], "executionId").n : j \in from}) >= 2 =>
                       /\ result.leads[i].id = Get(ok_leads[first], "executionId")
                       /\ result.leads[i].foundAt = Get(ok_leads[first], "foundAt")

====
